---- MODULE Spec2Model ----
(***************************************************************************)
(* Model of the storage-and-collection subsystem:                          *)
(*   - GoalBasedCollector._collect (src/utils/goal_based_collector.py),    *)
(*     driving env_num environments and writing to a                       *)
(*     GoalVectorReplayBuffer (src/core/buffer.py);                        *)
(*   - KnowledgeBaseManager.add / get_trajectory                           *)
(*     (src/knowledge_base/knowledge_base.py).                             *)
(* Slots and shards are numbered from 0 as in the code; TLA+ sequences are *)
(* indexed from 1, so slot/local index k lives at position k+1.            *)
(***************************************************************************)
EXTENDS Integers, Sequences, FiniteSets, TLC

\* ------------------------------------------------------------------ bounds
MaxEnvs == 2        \* env_num is drawn from 1..MaxEnvs
MaxNStep == 2       \* n_step targets are drawn from 1..MaxNStep
MaxNEpisode == 2    \* n_episode targets are drawn from 1..MaxNEpisode
MaxEpLen == 2       \* the environments truncate an episode after MaxEpLen steps
MaxCalls == 1       \* collection calls per collector
BufSize == 2        \* capacity of one shard: ceil(total_size / buffer_num)
KBShards == 2       \* buffer_num of the knowledge base
KBSize == 3         \* capacity of one knowledge base shard: ceil(total_size / buffer_num)
MaxTraj == 2        \* trajectory identifiers are drawn from 1..MaxTraj
MaxKBAdds == 4      \* transitions added to the knowledge base

\* Python's None for an optional int (n_step: int | None = None).
NoneInt == -1

\* ------------------------------------------------------------ collector state
VARIABLES
  env_num,                 \* self.env_num
  env_t,                   \* environment i: steps taken in its current episode
  env_k,                   \* environment i: steps taken since it was created
  buf,                     \* self.buffer: shard i -> [index, size, ep_rew, ep_len, ep_idx, data]
  pre_obs,                 \* self._pre_collect_obs_RO
  pre_info,                \* self._pre_collect_info_R
  pre_hidden,              \* self._pre_collect_hidden_state_RH
  collect_step,            \* self.collect_step
  collect_episode,         \* self.collect_episode
  collect_time,            \* self.collect_time, in clock ticks
  pc,                      \* "idle" | "loop" | "exit" | "aborted": position inside _collect
  n_step, n_episode, random,          \* arguments of the current / last call
  ready_env_ids_R,         \* locals of _collect
  last_obs_RO, last_info_R, last_hidden_state_RH,
  step_count, num_collected_episodes,
  episode_returns, episode_lens, episode_start_indices,
  outcome,                 \* how the last call ended
  stats,                   \* the CollectStats the last call returned
  calls,                   \* number of collection calls made so far
  \* history of the current call, kept for the properties only
  call_log,                \* transitions written in this call, in write order
  buf0,                    \* the buffer as it was when the call started
  n_policy,                \* Policy invocations in this call
  n_env_step,              \* env.step invocations that returned, in this call
  n_add,                   \* buffer.add invocations in this call
  last_miss,               \* the latent field the Policy's latest result omitted
  acted_after_done,        \* slots that received an action after completing an episode in this call
  max_ready,               \* largest ready set stepped in this call
  boundaries,              \* <<slot, cumulative step>> of every episode end since construction
  ep_acc,                  \* slot i -> [rew, ptr] of what it wrote since its previous done transition
  reset_ids,               \* the env ids the latest iteration passed to env.reset
  pre0,                    \* the collector's counters and persisted arrays when the call started
  prev_mode,               \* the budget kind of the call before the current one
  \* continuity scenario (SpecCont)
  env_det,                 \* TRUE: episode lengths are fixed by env_len
  env_len,                 \* deterministic environment: slot -> episode length
  phase,                   \* "free" | "split" | "single" | "compared"
  script,                  \* the two step targets <<n1, n2>> of the scenario
  saved                    \* result of the split run: [steps, boundaries]

\* ------------------------------------------------------ knowledge base state
VARIABLES
  kb,                      \* self.buffers: shard s -> [index, size, ep_rew, ep_len, ep_idx, data]
  traj_meta,               \* self.traj_meta: traj_id -> per shard, <<>> (None) or <<first, last>>
  kb_last_index,           \* self.last_index
  kb_lengths,              \* self._lengths
  kb_keys,                 \* the keys of self._meta: the fields the arrays hold
  kb_ret,                  \* what the latest add / get_trajectory returned or raised
  kb_ever,                 \* history: the <<traj_id, shard>> pairs that received a transition
  kb_n,                    \* history: number of transitions added so far
  kb_log,                  \* history: every write since construction, [shard, g, row], in order
  kb_since                 \* history: shard s -> writes to it since the last reset

kvars == <<kb, traj_meta, kb_last_index, kb_lengths, kb_keys, kb_ret, kb_ever, kb_n,
           kb_log, kb_since>>

cvars == <<env_num, env_t, env_k, buf, pre_obs, pre_info, pre_hidden, collect_step,
           collect_episode, collect_time, pc, n_step, n_episode, random, ready_env_ids_R,
           last_obs_RO, last_info_R, last_hidden_state_RH, step_count,
           num_collected_episodes, episode_returns, episode_lens,
           episode_start_indices, outcome, stats, calls, call_log, buf0,
           n_policy, n_env_step, n_add, last_miss, acted_after_done, max_ready,
           boundaries, ep_acc, reset_ids, pre0, prev_mode, env_det, env_len, phase,
           script, saved>>

\* ------------------------------------------------------------------ helpers
Min(a, b) == IF a <= b THEN a ELSE b

\* np.arange(n) as a sequence of slot ids 0..n-1
Arange(n) == [j \in 1..n |-> j - 1]

\* obj[indices] for a sequence holding index k at position k+1
TakeIds(obj, ids) == [j \in 1..Len(ids) |-> obj[ids[j] + 1]]

\* arr[mask]: the entries of arr whose mask entry is TRUE, order kept
RECURSIVE MaskFilter(_, _)
MaskFilter(arr, mask) ==
  IF Len(arr) = 0 THEN <<>>
  ELSE LET rest == MaskFilter(Tail(arr), Tail(mask))
       IN IF Head(mask) THEN <<Head(arr)>> \o rest ELSE rest

\* np.where(flags)[0]: the (0-based) local indices whose flag is TRUE, increasing
Where(flags) == MaskFilter(Arange(Len(flags)), flags)

SeqSum(s) ==
  LET RECURSIVE Go(_)
      Go(k) == IF k = 0 THEN 0 ELSE s[k] + Go(k - 1)
  IN Go(Len(s))

Range(s) == {s[j] : j \in 1..Len(s)}

\* ---------------------------------------------------------- environment
\* The environments are external (spec section 6).  Environment i after t
\* steps of its current episode shows observation <<i, t>>; its info payload
\* also carries k, the number of steps it has taken since it was created.
Obs(i, t) == <<i, t>>
Info(i, t, k) == [env_id |-> i, t |-> t, k |-> k]
Reward(i, t) == i + 1

\* the termination flags environment i can report for its step number t
Terminations(i, t) ==
  IF env_det THEN {t = env_len[i + 1]}
  ELSE IF t >= MaxEpLen THEN {FALSE} ELSE BOOLEAN
Truncated(i, t) == (~env_det) /\ t >= MaxEpLen

\* --------------------------------------------------------------- policy
\* HiddenState of one slot: who it was produced for and how many Policy steps
\* it has accumulated.  ZeroState is what _reset_hidden_state_based_on_type
\* writes (zeros) and what an absent hidden state (None) stands for.
ZeroState == [env |-> NoneInt, n |-> 0]
NoHidden == [some |-> FALSE, v |-> <<>>]
SomeHidden(v) == [some |-> TRUE, v |-> v]

LatentObs(o) == <<"z", o>>
LatentGoal(o) == 10 + o[1]

\* self.policy(obs_batch_R, last_hidden_state_RH): a deterministic recurrent
\* Policy; `miss` names the latent field its result omits ("none": neither).
PolicyForward(obs_R, hid, miss) ==
  LET hin(j) == IF hid.some THEN hid.v[j] ELSE ZeroState
  IN [act |-> [j \in 1..Len(obs_R) |-> [o |-> obs_R[j], h |-> hin(j).n]],
      state |-> [j \in 1..Len(obs_R) |->
                   [env |-> IF hin(j).env = NoneInt THEN obs_R[j][1] ELSE hin(j).env,
                    n |-> hin(j).n + 1]],
      has_latent_obs |-> miss # "latent_obs",
      has_latent_goal |-> miss # "latent_goal",
      latent_obs |-> [j \in 1..Len(obs_R) |-> LatentObs(obs_R[j])],
      latent_goal |-> [j \in 1..Len(obs_R) |-> LatentGoal(obs_R[j])]]

\* lines 90-96: the two `is None` checks that raise RuntimeError
LatentMissingOnlyObs(res) == ~res.has_latent_obs
LatentMissing(res) == (~res.has_latent_obs) \/ (~res.has_latent_goal)

\* _compute_action_policy_hidden.  error is "none" or the exception raised.
\* In the random branch latent_obs_R and latent_goal_R are never assigned, so
\* the return statement raises UnboundLocalError.
ComputeActionPolicyHidden(rnd, ids, obs_R, info_R, hid, miss) ==
  IF rnd
  THEN [error |-> "UnboundLocalError", policy_called |-> FALSE,
        act |-> [j \in 1..Len(ids) |-> [o |-> <<ids[j], NoneInt>>, h |-> 0]],
        hidden |-> NoHidden,
        latent_goal |-> [j \in 1..Len(ids) |-> NoneInt]]
  ELSE LET res == PolicyForward(obs_R, hid, miss)
       IN [error |-> IF LatentMissing(res) THEN "MissingLatentState" ELSE "none",
           policy_called |-> TRUE,
           act |-> res.act,
           hidden |-> SomeHidden(res.state),
           latent_goal |-> IF res.has_latent_goal THEN res.latent_goal
                           ELSE [j \in 1..Len(ids) |-> NoneInt]]

\* --------------------------------------------------------------- buffer
\* One shard (a GoalReplayBuffer of capacity BufSize).
EmptyShard == [index |-> 0, size |-> 0, ep_rew |-> 0, ep_len |-> 0, ep_idx |-> 0,
               data |-> [k \in 1..BufSize |-> <<>>]]

\* self._offset[buffer_id]
Offset(id) == id * BufSize

\* ReplayBuffer._add_index(rew, done)
AddIndexPtrAfter(sh, rew, done) ==
  LET ptr == (sh.index + 1) % Len(sh.data)
      moved == [sh EXCEPT !.size = Min(sh.size + 1, Len(sh.data)),
                          !.index = (sh.index + 1) % Len(sh.data),
                          !.ep_rew = sh.ep_rew + rew,
                          !.ep_len = sh.ep_len + 1]
  IN IF done
     THEN [sh |-> [moved EXCEPT !.ep_rew = 0, !.ep_len = 0, !.ep_idx = moved.index],
           ptr |-> ptr, ep_rew |-> moved.ep_rew, ep_len |-> moved.ep_len,
           ep_idx |-> sh.ep_idx]
     ELSE [sh |-> moved, ptr |-> ptr, ep_rew |-> 0, ep_len |-> 0, ep_idx |-> sh.ep_idx]
AddIndexNoSaturate(sh, rew, done) ==
  LET ptr == sh.index
      moved == [sh EXCEPT !.size = sh.size + 1,
                          !.index = (sh.index + 1) % Len(sh.data),
                          !.ep_rew = sh.ep_rew + rew,
                          !.ep_len = sh.ep_len + 1]
  IN IF done
     THEN [sh |-> [moved EXCEPT !.ep_rew = 0, !.ep_len = 0, !.ep_idx = moved.index],
           ptr |-> ptr, ep_rew |-> moved.ep_rew, ep_len |-> moved.ep_len,
           ep_idx |-> sh.ep_idx]
     ELSE [sh |-> moved, ptr |-> ptr, ep_rew |-> 0, ep_len |-> 0, ep_idx |-> sh.ep_idx]
AddIndexNoEpisodeReset(sh, rew, done) ==
  LET ptr == sh.index
      moved == [sh EXCEPT !.size = Min(sh.size + 1, Len(sh.data)),
                          !.index = (sh.index + 1) % Len(sh.data),
                          !.ep_rew = sh.ep_rew + rew,
                          !.ep_len = sh.ep_len + 1]
  IN IF done
     THEN [sh |-> moved,
           ptr |-> ptr, ep_rew |-> moved.ep_rew, ep_len |-> moved.ep_len,
           ep_idx |-> sh.ep_idx]
     ELSE [sh |-> moved, ptr |-> ptr, ep_rew |-> 0, ep_len |-> 0, ep_idx |-> sh.ep_idx]
AddIndex(sh, rew, done) ==
  LET ptr == sh.index
      moved == [sh EXCEPT !.size = Min(sh.size + 1, Len(sh.data)),
                          !.index = (sh.index + 1) % Len(sh.data),
                          !.ep_rew = sh.ep_rew + rew,
                          !.ep_len = sh.ep_len + 1]
  IN IF done
     THEN [sh |-> [moved EXCEPT !.ep_rew = 0, !.ep_len = 0, !.ep_idx = moved.index],
           ptr |-> ptr, ep_rew |-> moved.ep_rew, ep_len |-> moved.ep_len,
           ep_idx |-> sh.ep_idx]
     ELSE [sh |-> moved, ptr |-> ptr, ep_rew |-> 0, ep_len |-> 0, ep_idx |-> sh.ep_idx]

\* GoalReplayBufferManager.add(batch, buffer_ids): entry j of the batch goes to
\* shard buffer_ids[j]; returns the new buffer and, per entry, the global
\* pointer and the episode totals.
RECURSIVE BufferAdd(_, _, _)
BufferAdd(b, batch, buffer_ids) ==
  IF Len(buffer_ids) = 0
  THEN [buf |-> b, ptr |-> <<>>, ep_rew |-> <<>>, ep_len |-> <<>>, ep_idx |-> <<>>]
  ELSE LET k == Len(buffer_ids)
           prev == BufferAdd(b, SubSeq(batch, 1, k - 1), SubSeq(buffer_ids, 1, k - 1))
           id == buffer_ids[k]
           r == AddIndex(prev.buf[id + 1], batch[k].rew, batch[k].done)
           stored == [r.sh EXCEPT !.data[r.ptr + 1] = <<batch[k]>>]
       IN [buf |-> [prev.buf EXCEPT ![id + 1] = stored],
           ptr |-> Append(prev.ptr, r.ptr + Offset(id)),
           ep_rew |-> Append(prev.ep_rew, r.ep_rew),
           ep_len |-> Append(prev.ep_len, r.ep_len),
           ep_idx |-> Append(prev.ep_idx, r.ep_idx + Offset(id))]

\* ------------------------------------------------------ _collect, pieces
\* Python truthiness of an optional int: `if n_step:` / `if n_episode:`
Truthy(x) == x # NoneInt /\ x # 0

\* lines 123-128
InitialReadyAllEnvs(ns, ne, n) == Arange(n)
InitialReady(ns, ne, n) ==
  IF ns # NoneInt THEN Arange(n) ELSE Arange(Min(n, ne))

\* lines 275-278
SurplusEnvNumOffByOne(R, ne, collected) == R - (ne - collected) - 1
SurplusEnvNum(R, ne, collected) == R - (ne - collected)

\* lines 286-290: env_should_remain_R
EnvShouldRemainNone(R, env_ind_local_D, surplus_env_num) == [j \in 1..R |-> FALSE]
EnvShouldRemainDropsLast(R, env_ind_local_D, surplus_env_num) ==
  [j \in 1..R |-> j <= R - surplus_env_num]
EnvShouldRemainDropsFirst(R, env_ind_local_D, surplus_env_num) ==
  [j \in 1..R |-> j > surplus_env_num]
EnvShouldRemain(R, env_ind_local_D, surplus_env_num) ==
  LET ignored == Range(SubSeq(env_ind_local_D, 1, Min(surplus_env_num, Len(env_ind_local_D))))
  IN [j \in 1..R |-> (j - 1) \notin ignored]

\* line 236: ready_env_ids_R[env_ind_local_D], the slot ids that finished
EnvIndGlobal(ready, env_ind_local_D) == TakeIds(ready, env_ind_local_D)

\* lines 225 and 255: last_obs_RO = copy(obs_next_RO), then
\* last_obs_RO[env_ind_local_D] = obs_reset_DO
LastObsForNextKeepsTerminal(obs_next_RO, env_ind_local_D, obs_reset_DO) == obs_next_RO
LastObsForNext(obs_next_RO, env_ind_local_D, obs_reset_DO) ==
  [j \in 1..Len(obs_next_RO) |->
     IF (j - 1) \in Range(env_ind_local_D)
     THEN obs_reset_DO[CHOOSE d \in 1..Len(env_ind_local_D) : env_ind_local_D[d] = j - 1]
     ELSE obs_next_RO[j]]

\* line 215: buffer_ids=ready_env_ids_R
BufferIdsByPosition(ready) == Arange(Len(ready))
BufferIds(ready) == ready

\* lines 237-239: arr[env_ind_local_D], the entries of the slots that finished
DoneEntriesFirstD(arr, env_ind_local_D) == SubSeq(arr, 1, Len(env_ind_local_D))
DoneEntries(arr, env_ind_local_D) == TakeIds(arr, env_ind_local_D)

\* lines 298-300
ShouldBreak(ns, ne, steps, episodes) ==
  (Truthy(ns) /\ steps >= ns) \/ (Truthy(ne) /\ episodes >= ne)

\* lines 309-316: the branch `elif n_episode:` that calls self.reset_env()
ResetsEnvAtEndNever(ns, ne) == FALSE
ResetsEnvAtEndAlways(ns, ne) == TRUE
ResetsEnvAtEnd(ns, ne) == (~Truthy(ns)) /\ Truthy(ne)

\* the kind of budget a call was given
BudgetKind(ns, ne) ==
  IF ns # NoneInt /\ ne # NoneInt THEN "both"
  ELSE IF ns # NoneInt THEN "step"
  ELSE IF ne # NoneInt THEN "episode"
  ELSE "neither"

\* position (1-based) of x in seq
PosIn(seq, x) == CHOOSE d \in 1..Len(seq) : seq[d] = x

\* ReplayBufferManager.add keeps the buffer's _reserved_keys of the batch:
\* latent_obs is not one of GoalReplayBuffer's
ReservedKeys(tr) ==
  [obs |-> tr.obs, latent_goal |-> tr.latent_goal, act |-> tr.act,
   obs_next |-> tr.obs_next, rew |-> tr.rew, terminated |-> tr.terminated,
   truncated |-> tr.truncated, done |-> tr.done, info |-> tr.info,
   policy |-> tr.policy]

FreshObs(n) == [k \in 1..n |-> Obs(k - 1, 0)]
ResetInfo(n, ks) == [j \in 1..n |-> Info(j - 1, 0, ks[j])]
FreshBuf(n) == [k \in 1..n |-> EmptyShard]
NoStats == [returns |-> <<>>, lens |-> <<>>, n_collected_episodes |-> 0,
            n_collected_steps |-> 0]
NoSaved == [steps |-> 0, boundaries |-> <<>>]

\* -------------------------------------------------------- knowledge base
\* one KnowledgeBase(size), empty
KBEmptyShard == [index |-> 0, size |-> 0, ep_rew |-> 0, ep_len |-> 0, ep_idx |-> 0,
                 data |-> [k \in 1..KBSize |-> <<>>]]

\* self._offset[buffer_id] of the knowledge base
KBOffsetOneBased(id) == (id + 1) * KBSize
KBOffset(id) == id * KBSize

\* A VectorKnowledgeBase of KBShards shards of capacity KBSize, empty.
InitKB ==
  /\ kb = [s \in 1..KBShards |-> KBEmptyShard]
  /\ traj_meta = <<>>
  /\ kb_last_index = [s \in 1..KBShards |-> KBOffset(s - 1)]
  /\ kb_lengths = [s \in 1..KBShards |-> 0]
  /\ kb_keys = {}
  /\ kb_ret = [kind |-> "none"]
  /\ kb_ever = {}
  /\ kb_n = 0
  /\ kb_log = <<>>
  /\ kb_since = [s \in 1..KBShards |-> 0]

\* lines 101-116: record / extend the range of traj_id in shard buffer_id
RecordTrajectoryAllShards(tm, traj_id, buffer_id, idx) ==
  LET row == IF traj_id \in DOMAIN tm THEN tm[traj_id]
             ELSE [s \in 1..KBShards |-> <<idx, idx>>]
      seg == row[buffer_id + 1]
      row2 == [row EXCEPT ![buffer_id + 1] =
                 IF seg = <<>> THEN <<idx, idx>> ELSE <<seg[1], idx>>]
  IN [x \in (DOMAIN tm) \cup {traj_id} |-> IF x = traj_id THEN row2 ELSE tm[x]]
RecordTrajectoryMovesFirst(tm, traj_id, buffer_id, idx) ==
  LET row == IF traj_id \in DOMAIN tm THEN tm[traj_id]
             ELSE [s \in 1..KBShards |-> <<>>]
      row2 == [row EXCEPT ![buffer_id + 1] = <<idx, idx>>]
  IN [x \in (DOMAIN tm) \cup {traj_id} |-> IF x = traj_id THEN row2 ELSE tm[x]]
RecordTrajectory(tm, traj_id, buffer_id, idx) ==
  LET row == IF traj_id \in DOMAIN tm THEN tm[traj_id]
             ELSE [s \in 1..KBShards |-> <<>>]
      seg == row[buffer_id + 1]
      row2 == [row EXCEPT ![buffer_id + 1] =
                 IF seg = <<>> THEN <<idx, idx>> ELSE <<seg[1], idx>>]
  IN [x \in (DOMAIN tm) \cup {traj_id} |-> IF x = traj_id THEN row2 ELSE tm[x]]

\* KnowledgeBaseManager.add, the loop of lines 88-116 and the store of line
\* 120, over the batch entries in order.
RECURSIVE KBAddLoop(_, _, _)
KBAddLoop(st, batch, buffer_ids) ==
  IF Len(buffer_ids) = 0 THEN st
  ELSE LET k == Len(buffer_ids)
           prev == KBAddLoop(st, SubSeq(batch, 1, k - 1), SubSeq(buffer_ids, 1, k - 1))
           id == buffer_ids[k]
           r == AddIndex(prev.kb[id + 1], batch[k].rew, FALSE)
           g == r.ptr + KBOffset(id)
           stored == [r.sh EXCEPT !.data[r.ptr + 1] = <<batch[k]>>]
       IN [kb |-> [prev.kb EXCEPT ![id + 1] = stored],
           traj_meta |-> RecordTrajectory(prev.traj_meta, batch[k].traj_id, id, g),
           last_index |-> [prev.last_index EXCEPT ![id + 1] = g],
           lengths |-> [prev.lengths EXCEPT ![id + 1] = stored.size],
           ptrs |-> Append(prev.ptrs, g),
           ep_rews |-> Append(prev.ep_rews, r.ep_rew),
           ep_lens |-> Append(prev.ep_lens, r.ep_len),
           ep_idxs |-> Append(prev.ep_idxs, r.ep_idx + KBOffset(id))]

\* self._reserved_keys, in the order the preprocessing reads them
KBReservedKeys == <<"latent_obs", "act", "rew", "traj_id">>

\* the reserved keys the batch does not carry, in that order
KBMissingKeys(batch) ==
  SelectSeq(KBReservedKeys, LAMBDA key : \E j \in 1..Len(batch) : key \notin DOMAIN batch[j])

\* KnowledgeBaseManager.add(batch, buffer_ids) for a batch that lacks a
\* reserved key: batch[key] raises in the preprocessing, before any shard or
\* traj_meta is touched.
KBAddMissingFieldLate(batch, buffer_ids) ==
  /\ KBMissingKeys(batch) # <<>>
  /\ kb_ret' = [kind |-> "SchemaViolation", key |-> KBMissingKeys(batch)[1]]
  /\ kb' = [kb EXCEPT ![buffer_ids[1] + 1] = AddIndex(@, 0, FALSE).sh]
  /\ UNCHANGED <<traj_meta, kb_last_index, kb_lengths, kb_keys, kb_ever, kb_n, kb_log,
                 kb_since>>
  /\ UNCHANGED cvars
KBAddMissingField(batch, buffer_ids) ==
  /\ KBMissingKeys(batch) # <<>>
  /\ kb_ret' = [kind |-> "SchemaViolation", key |-> KBMissingKeys(batch)[1]]
  /\ UNCHANGED <<kb, traj_meta, kb_last_index, kb_lengths, kb_keys, kb_ever, kb_n,
                 kb_log, kb_since>>
  /\ UNCHANGED cvars

\* A field nested inside a reserved key is named "key.sub"; these are the
\* nested fields a latent observation may carry.
KBNestedKeys == {"latent_obs.aux"}

\* lines 75-78: the batch that is stored holds the reserved keys, with
\* whatever is nested inside them, and nothing else of what was passed
KBPreprocess(entry) ==
  [key \in {k \in DOMAIN entry : k \in KBNestedKeys \/ \E i \in 1..Len(KBReservedKeys) :
                                                      KBReservedKeys[i] = k}
     |-> entry[key]]

\* the keys of the preprocessed batch
KBBatchKeys(batch) == UNION {DOMAIN KBPreprocess(batch[j]) : j \in 1..Len(batch)}

\* the row the arrays receive for an entry: a key the entry lacks is zeroed
KBFill(entry, keys) == [key \in keys |-> IF key \in DOMAIN entry THEN entry[key] ELSE 0]

\* lines 121-128: the store raised because the batch has a key the arrays
\* lack.  Arrays are allocated for the keys that are missing (all of them at
\* the first add), zero-filled; the arrays that exist keep their contents.
KBGrowReallocates(shards, keys) ==
  [s \in 1..KBShards |-> [shards[s] EXCEPT !.data = [k \in 1..KBSize |-> <<>>]]]
KBGrow(shards, keys) ==
  [s \in 1..KBShards |->
     [shards[s] EXCEPT !.data =
        [k \in 1..KBSize |->
           IF shards[s].data[k] = <<>> THEN <<>>
           ELSE <<KBFill(shards[s].data[k][1], keys)>>]]]

\* KnowledgeBaseManager.add(batch, buffer_ids) for a batch with every reserved key
KBAdd(batch, buffer_ids) ==
  /\ KBMissingKeys(batch) = <<>>
  /\ kb_n + Len(batch) <= MaxKBAdds
  /\ LET keys == kb_keys \cup KBBatchKeys(batch)
         new_batch == [j \in 1..Len(batch) |-> KBFill(KBPreprocess(batch[j]), keys)]
         meta == IF keys # kb_keys THEN KBGrow(kb, keys) ELSE kb
     IN \E st \in {KBAddLoop([kb |-> meta, traj_meta |-> traj_meta,
                              last_index |-> kb_last_index, lengths |-> kb_lengths,
                              ptrs |-> <<>>, ep_rews |-> <<>>, ep_lens |-> <<>>,
                              ep_idxs |-> <<>>], new_batch, buffer_ids)} :
        /\ kb' = st.kb
        /\ kb_keys' = keys
        /\ traj_meta' = st.traj_meta
        /\ kb_last_index' = st.last_index
        /\ kb_lengths' = st.lengths
        /\ kb_ret' = [kind |-> "add", ptrs |-> st.ptrs, ep_rews |-> st.ep_rews,
                      ep_lens |-> st.ep_lens, ep_idxs |-> st.ep_idxs,
                      buffer_ids |-> buffer_ids]
        /\ kb_log' = kb_log \o [j \in 1..Len(batch) |->
                                  [shard |-> buffer_ids[j], g |-> st.ptrs[j],
                                   row |-> batch[j]]]
  /\ kb_since' = [s \in 1..KBShards |->
                    kb_since[s] + Cardinality({j \in 1..Len(batch) : buffer_ids[j] = s - 1})]
  /\ kb_ever' = kb_ever \cup
       {<<batch[j].traj_id, buffer_ids[j]>> : j \in 1..Len(batch)}
  /\ kb_n' = kb_n + Len(batch)
  /\ UNCHANGED cvars

\* Python's slice bounds: a negative bound counts from the end, then both are
\* clamped to 0..len
PyBound(len, b) == IF b < 0 THEN (IF b + len < 0 THEN 0 ELSE b + len) ELSE Min(b, len)

\* self._indices[:len(self)][start:end]
PySlice(len, start, end) ==
  LET lo == PyBound(len, start)
      hi == PyBound(len, end)
  IN [j \in 1..(IF hi > lo THEN hi - lo ELSE 0) |-> lo + j - 1]

\* the row read at a position: what was stored there, or the zeros the arrays
\* were allocated with
KBNeutralRow == [key \in kb_keys |-> 0]
KBRead(cell) == IF cell = <<>> THEN KBNeutralRow ELSE cell[1]

\* KnowledgeBase.__getitem__(slice(start, end)) on one shard: the stored rows
ShardGetSlice(sh, start, end) ==
  LET indices == PySlice(sh.size, start, end)
  IN [j \in 1..Len(indices) |-> KBRead(sh.data[indices[j] + 1])]

\* KnowledgeBaseManager.get_trajectory(traj_id), traj_id a key of traj_meta:
\* per shard, absent or the Batch sliced from the recorded range
GetTrajectory(traj_id) ==
  [s \in 1..KBShards |->
     LET traj_segment == traj_meta[traj_id][s]
     IN IF traj_segment # <<>>
        THEN LET buffer_start_idx == traj_segment[1] - KBOffset(s - 1)
                 buffer_end_idx == traj_segment[2] - KBOffset(s - 1) + 1
             IN [some |-> TRUE,
                 rows |-> ShardGetSlice(kb[s], buffer_start_idx, buffer_end_idx)]
        ELSE [some |-> FALSE, rows |-> <<>>]]

\* a call of get_trajectory: KeyError for an identifier traj_meta does not hold
KBGetTrajectory(traj_id) ==
  /\ kb_ret' = IF traj_id \in DOMAIN traj_meta
               THEN [kind |-> "trajectory", traj_id |-> traj_id,
                     v |-> GetTrajectory(traj_id)]
               ELSE [kind |-> "KeyError", traj_id |-> traj_id]
  /\ UNCHANGED <<kb, traj_meta, kb_last_index, kb_lengths, kb_keys, kb_ever, kb_n,
                 kb_log, kb_since>>
  /\ UNCHANGED cvars

\* total capacity of the manager: the length of its arrays
KBTotal == KBShards * KBSize

\* manager[g] for an integer g, KnowledgeBase.__getitem__ without a slice:
\* the arrays are indexed with g as it is.  Before the first add there are no
\* arrays and the lookup of latent_obs raises KeyError; an index outside
\* [-total, total) raises IndexError; a negative index in range counts from
\* the end of the arrays.
KBGetItem(g) ==
  /\ kb_ret' =
       IF kb_keys = {} THEN [kind |-> "KeyError", g |-> g]
       ELSE IF g >= KBTotal \/ g < -KBTotal THEN [kind |-> "IndexOutOfRange", g |-> g]
       ELSE LET pos == IF g < 0 THEN g + KBTotal ELSE g
            IN [kind |-> "item", g |-> g,
                row |-> KBRead(kb[(pos \div KBSize) + 1].data[(pos % KBSize) + 1])]
  /\ UNCHANGED <<kb, traj_meta, kb_last_index, kb_lengths, kb_keys, kb_ever, kb_n,
                 kb_log, kb_since>>
  /\ UNCHANGED cvars

\* reset(), inherited from the base manager (KnowledgeBaseManager does not
\* override it): every shard's pointer, valid-count and episode accumulators
\* are zeroed, last_index and _lengths are re-initialised; the stored arrays
\* are left as they are, and so is traj_meta, which only add assigns.
KBReset ==
  /\ kb' = [s \in 1..KBShards |->
              [kb[s] EXCEPT !.index = 0, !.size = 0, !.ep_rew = 0, !.ep_len = 0,
                            !.ep_idx = 0]]
  /\ kb_last_index' = [s \in 1..KBShards |-> KBOffset(s - 1)]
  /\ kb_lengths' = [s \in 1..KBShards |-> 0]
  /\ kb_since' = [s \in 1..KBShards |-> 0]
  /\ kb_ret' = [kind |-> "reset"]
  /\ UNCHANGED <<traj_meta, kb_keys, kb_ever, kb_n, kb_log>>
  /\ UNCHANGED cvars

\* ------------------------------------------------------------------- Init
\* A constructed collector after the initial reset that _collect requires
\* (lines 131-135), with an empty buffer of env_num shards.
InitCollector(n) ==
  /\ env_num = n
  /\ env_t = [k \in 1..n |-> 0]
  /\ env_k = [k \in 1..n |-> 0]
  /\ buf = FreshBuf(n)
  /\ pre_obs = FreshObs(n)
  /\ pre_info = ResetInfo(n, [k \in 1..n |-> 0])
  /\ pre_hidden = NoHidden
  /\ collect_step = 0
  /\ collect_episode = 0
  /\ collect_time = 0
  /\ pc = "idle"
  /\ n_step = NoneInt
  /\ n_episode = NoneInt
  /\ random = FALSE
  /\ ready_env_ids_R = <<>>
  /\ last_obs_RO = <<>>
  /\ last_info_R = <<>>
  /\ last_hidden_state_RH = NoHidden
  /\ step_count = 0
  /\ num_collected_episodes = 0
  /\ episode_returns = <<>>
  /\ episode_lens = <<>>
  /\ episode_start_indices = <<>>
  /\ outcome = "none"
  /\ stats = NoStats
  /\ calls = 0
  /\ call_log = <<>>
  /\ buf0 = FreshBuf(n)
  /\ n_policy = 0
  /\ n_env_step = 0
  /\ n_add = 0
  /\ last_miss = "none"
  /\ acted_after_done = {}
  /\ max_ready = 0
  /\ boundaries = <<>>
  /\ ep_acc = [k \in 1..n |-> <<>>]
  /\ reset_ids = <<>>
  /\ pre0 = [collect_step |-> 0, collect_episode |-> 0, collect_time |-> 0, pre_obs |-> FreshObs(n),
             pre_info |-> ResetInfo(n, [k \in 1..n |-> 0]), pre_hidden |-> NoHidden]
  /\ prev_mode = "none"

\* ---------------------------------------------------------------- _collect
\* Entry of _collect, lines 117-152.
Collect(ns, ne, rnd) ==
  /\ pc = "idle"
  /\ calls' = calls + 1
  /\ n_step' = ns
  /\ n_episode' = ne
  /\ random' = rnd
  /\ call_log' = <<>>
  /\ buf0' = buf
  /\ n_policy' = 0
  /\ n_env_step' = 0
  /\ n_add' = 0
  /\ last_miss' = "none"
  /\ acted_after_done' = {}
  /\ max_ready' = 0
  /\ step_count' = 0
  /\ num_collected_episodes' = 0
  /\ episode_returns' = <<>>
  /\ episode_lens' = <<>>
  /\ episode_start_indices' = <<>>
  /\ reset_ids' = <<>>
  /\ pre0' = [collect_step |-> collect_step, collect_episode |-> collect_episode,
              collect_time |-> collect_time,
              pre_obs |-> pre_obs, pre_info |-> pre_info, pre_hidden |-> pre_hidden]
  /\ prev_mode' = IF calls = 0 THEN "none" ELSE BudgetKind(n_step, n_episode)
  /\ UNCHANGED kvars
  /\ UNCHANGED <<env_num, env_t, env_k, buf, pre_obs, pre_info, pre_hidden,
                 collect_step, collect_episode, collect_time, stats, boundaries, ep_acc, env_det,
                 env_len, phase, script, saved>>
  /\ IF ns = NoneInt /\ ne = NoneInt
     THEN \* line 128: ValueError("Either n_step or n_episode should be set.")
          /\ outcome' = "InvalidCollectionBudget"
          /\ pc' = "aborted"
          /\ UNCHANGED <<ready_env_ids_R, last_obs_RO, last_info_R,
                         last_hidden_state_RH>>
     ELSE LET ready == InitialReady(ns, ne, env_num)
              fits(arr) == \A j \in 1..Len(ready) : ready[j] + 1 <= Len(arr)
          IN IF fits(pre_obs) /\ fits(pre_info) /\ (pre_hidden.some => fits(pre_hidden.v))
             THEN /\ ready_env_ids_R' = ready
                  /\ last_obs_RO' = TakeIds(pre_obs, ready)
                  /\ last_info_R' = TakeIds(pre_info, ready)
                  /\ last_hidden_state_RH' =
                       IF pre_hidden.some THEN SomeHidden(TakeIds(pre_hidden.v, ready))
                       ELSE NoHidden
                  /\ outcome' = "none"
                  /\ pc' = "loop"
             ELSE \* _nullable_slice indexes past the persisted arrays: IndexError
                  /\ outcome' = "IndexError"
                  /\ pc' = "aborted"
                  /\ UNCHANGED <<ready_env_ids_R, last_obs_RO, last_info_R,
                                 last_hidden_state_RH>>

\* One pass of the while loop that runs to its end, lines 154-301.
\* miss: the latent field the Policy omits; terminated_R: what env.step reports.
IterStep(miss, terminated_R) ==
  /\ pc = "loop"
  /\ LET R == Len(ready_env_ids_R)
         res == ComputeActionPolicyHidden(random, ready_env_ids_R, last_obs_RO,
                                          last_info_R, last_hidden_state_RH, miss)
         t1(j) == env_t[ready_env_ids_R[j] + 1] + 1
         truncated_R == [j \in 1..R |-> Truncated(ready_env_ids_R[j], t1(j))]
         done_R == [j \in 1..R |-> terminated_R[j] \/ truncated_R[j]]
         obs_next_RO == [j \in 1..R |-> Obs(ready_env_ids_R[j], t1(j))]
         k1(j) == env_k[ready_env_ids_R[j] + 1] + 1
         info_R == [j \in 1..R |-> Info(ready_env_ids_R[j], t1(j), k1(j))]
         rew_R == [j \in 1..R |-> Reward(ready_env_ids_R[j], t1(j))]
         current_iteration_batch ==
           [j \in 1..R |->
              [obs |-> last_obs_RO[j], act |-> res.act[j],
               policy |-> IF res.hidden.some THEN res.hidden.v[j] ELSE ZeroState,
               obs_next |-> obs_next_RO[j],
               latent_obs |-> LatentObs(last_obs_RO[j]),
               latent_goal |-> res.latent_goal[j],
               rew |-> rew_R[j], terminated |-> terminated_R[j],
               truncated |-> truncated_R[j], done |-> done_R[j],
               info |-> info_R[j]]]
         stored_batch == [j \in 1..R |-> ReservedKeys(current_iteration_batch[j])]
         added == BufferAdd(buf, stored_batch, BufferIds(ready_env_ids_R))
         num_episodes_done_this_iter == Cardinality({j \in 1..R : done_R[j]})
         collected == num_collected_episodes + num_episodes_done_this_iter
         steps == step_count + R
         env_ind_local_D == Where(done_R)
         D == Len(env_ind_local_D)
         env_ind_global_D == EnvIndGlobal(ready_env_ids_R, env_ind_local_D)
         obs_reset_DO == [d \in 1..D |-> Obs(env_ind_global_D[d], 0)]
         info_reset_D == [d \in 1..D |->
                            Info(env_ind_global_D[d], 0, env_k[env_ind_global_D[d] + 1] + 1)]
         obs1 == LastObsForNext(obs_next_RO, env_ind_local_D, obs_reset_DO)
         info1 == [j \in 1..R |-> IF done_R[j]
                                   THEN info_reset_D[PosIn(env_ind_local_D, j - 1)]
                                   ELSE info_R[j]]
         hid1 == IF res.hidden.some
                 THEN SomeHidden([j \in 1..R |-> IF done_R[j] THEN ZeroState
                                                  ELSE res.hidden.v[j]])
                 ELSE NoHidden
         surplus_env_num == SurplusEnvNum(R, n_episode, collected)
         trim == num_episodes_done_this_iter > 0 /\ Truthy(n_episode)
                 /\ surplus_env_num > 0
         env_should_remain_R ==
           IF trim THEN EnvShouldRemain(R, env_ind_local_D, surplus_env_num)
           ELSE [j \in 1..R |-> TRUE]
         stepped == Range(ready_env_ids_R)
     IN /\ res.error = "none"
        /\ \A j \in 1..R : terminated_R[j] \in Terminations(ready_env_ids_R[j], t1(j))
        /\ env_t' = [k \in 1..env_num |->
                       IF (k - 1) \in Range(env_ind_global_D) THEN 0
                       ELSE IF (k - 1) \in stepped THEN env_t[k] + 1
                       ELSE env_t[k]]
        /\ reset_ids' = env_ind_global_D
        /\ ep_acc' = [k \in 1..env_num |->
                        IF (k - 1) \in stepped
                        THEN LET j == PosIn(ready_env_ids_R, k - 1)
                             IN IF done_R[j] THEN <<>>
                                ELSE Append(ep_acc[k], [rew |-> rew_R[j], ptr |-> added.ptr[j]])
                        ELSE ep_acc[k]]
        /\ env_k' = [k \in 1..env_num |->
                       IF (k - 1) \in stepped THEN env_k[k] + 1 ELSE env_k[k]]
        /\ buf' = added.buf
        /\ num_collected_episodes' = collected
        /\ step_count' = steps
        /\ episode_lens' = episode_lens \o DoneEntries(added.ep_len, env_ind_local_D)
        /\ episode_returns' = episode_returns \o DoneEntries(added.ep_rew, env_ind_local_D)
        /\ episode_start_indices' =
             episode_start_indices \o DoneEntries(added.ep_idx, env_ind_local_D)
        /\ ready_env_ids_R' = MaskFilter(ready_env_ids_R, env_should_remain_R)
        /\ last_obs_RO' = MaskFilter(obs1, env_should_remain_R)
        /\ last_info_R' = MaskFilter(info1, env_should_remain_R)
        /\ last_hidden_state_RH' =
             IF hid1.some THEN SomeHidden(MaskFilter(hid1.v, env_should_remain_R))
             ELSE NoHidden
        /\ pc' = IF ShouldBreak(n_step, n_episode, steps, collected) THEN "exit"
                 ELSE "loop"
        /\ call_log' = call_log \o
             [j \in 1..R |-> [iter |-> n_add + 1, slot |-> ready_env_ids_R[j],
                              ptr |-> added.ptr[j], tr |-> stored_batch[j],
                              ep_rew |-> added.ep_rew[j], ep_len |-> added.ep_len[j],
                              ep_idx |-> added.ep_idx[j]]]
        /\ acted_after_done' = acted_after_done \cup
             {i \in stepped : \E e \in 1..Len(call_log) :
                                 call_log[e].slot = i /\ call_log[e].tr.done}
        /\ max_ready' = IF R > max_ready THEN R ELSE max_ready
        /\ boundaries' = boundaries \o
             [d \in 1..D |-> <<env_ind_global_D[d], collect_step + steps>>]
        /\ n_policy' = n_policy + 1
        /\ n_env_step' = n_env_step + 1
        /\ n_add' = n_add + 1
        /\ last_miss' = miss
  /\ UNCHANGED kvars
  /\ UNCHANGED <<env_num, pre_obs, pre_info, pre_hidden, collect_step,
                 collect_episode, collect_time, n_step, n_episode, random, outcome, stats, calls,
                 buf0, pre0, prev_mode, env_det, env_len, phase, script, saved>>

AbortWithRollback(error, policy_called, miss) ==
  /\ outcome' = error
  /\ pc' = "aborted"
  /\ buf' = buf0
  /\ n_policy' = n_policy + (IF policy_called THEN 1 ELSE 0)
  /\ last_miss' = miss
  /\ UNCHANGED kvars
  /\ UNCHANGED <<env_num, env_t, env_k, pre_obs, pre_info, pre_hidden,
                 collect_step, collect_episode, collect_time, n_step, n_episode, random, ready_env_ids_R,
                 last_obs_RO, last_info_R, last_hidden_state_RH, step_count,
                 num_collected_episodes, episode_returns, episode_lens,
                 episode_start_indices, stats, calls, call_log, buf0, n_env_step,
                 n_add, acted_after_done, max_ready, boundaries, ep_acc, reset_ids,
                 pre0, prev_mode, env_det, env_len, phase, script, saved>>
AbortCountsSteps(error, policy_called, miss) ==
  /\ outcome' = error
  /\ collect_step' = collect_step + step_count
  /\ pc' = "aborted"
  /\ n_policy' = n_policy + (IF policy_called THEN 1 ELSE 0)
  /\ last_miss' = miss
  /\ UNCHANGED kvars
  /\ UNCHANGED <<env_num, env_t, env_k, buf, pre_obs, pre_info, pre_hidden,
                 collect_episode, collect_time, n_step, n_episode, random, ready_env_ids_R,
                 last_obs_RO, last_info_R, last_hidden_state_RH, step_count,
                 num_collected_episodes, episode_returns, episode_lens,
                 episode_start_indices, stats, calls, call_log, buf0, n_env_step,
                 n_add, acted_after_done, max_ready, boundaries, ep_acc, reset_ids,
                 pre0, prev_mode, env_det, env_len, phase, script, saved>>
\* What an aborted call leaves behind.  The exception propagates out of
\* _collect; no caller catches it (src/core/trainer.py:197), so no further call
\* is made on this collector.
Abort(error, policy_called, miss) ==
  /\ outcome' = error
  /\ pc' = "aborted"
  /\ n_policy' = n_policy + (IF policy_called THEN 1 ELSE 0)
  /\ last_miss' = miss
  /\ UNCHANGED kvars
  /\ UNCHANGED <<env_num, env_t, env_k, buf, pre_obs, pre_info, pre_hidden,
                 collect_step, collect_episode, collect_time, n_step, n_episode, random, ready_env_ids_R,
                 last_obs_RO, last_info_R, last_hidden_state_RH, step_count,
                 num_collected_episodes, episode_returns, episode_lens,
                 episode_start_indices, stats, calls, call_log, buf0, n_env_step,
                 n_add, acted_after_done, max_ready, boundaries, ep_acc, reset_ids,
                 pre0, prev_mode, env_det, env_len, phase, script, saved>>

\* A pass in which _compute_action_policy_hidden raises (lines 91-105).
IterPolicyError(miss) ==
  /\ pc = "loop"
  /\ LET res == ComputeActionPolicyHidden(random, ready_env_ids_R, last_obs_RO,
                                          last_info_R, last_hidden_state_RH, miss)
     IN /\ res.error # "none"
        /\ Abort(res.error, res.policy_called, miss)

\* A pass in which self.env.step raises (lines 179-182): nothing catches it.
IterEnvStepError(miss) ==
  /\ pc = "loop"
  /\ LET res == ComputeActionPolicyHidden(random, ready_env_ids_R, last_obs_RO,
                                          last_info_R, last_hidden_state_RH, miss)
     IN /\ res.error = "none"
        /\ Abort("EnvironmentStepFailure", res.policy_called, miss)

\* After the loop, lines 303-325.
Return ==
  /\ pc = "exit"
  /\ collect_step' = collect_step + step_count
  /\ collect_episode' = collect_episode + num_collected_episodes
  \* lines 306-307: the elapsed time is at least 1e-9, here one tick
  /\ collect_time' = collect_time + 1
  /\ IF ResetsEnvAtEnd(n_step, n_episode)
     THEN \* self.reset_env(): reset every environment and the _pre_collect fields
          /\ env_t' = [k \in 1..env_num |-> 0]
          /\ pre_obs' = FreshObs(env_num)
          /\ pre_info' = ResetInfo(env_num, env_k)
          /\ pre_hidden' = NoHidden
     ELSE IF Truthy(n_step)
     THEN \* persist for future collect iterations
          /\ pre_obs' = last_obs_RO
          /\ pre_info' = last_info_R
          /\ pre_hidden' = last_hidden_state_RH
          /\ UNCHANGED env_t
     ELSE UNCHANGED <<env_t, pre_obs, pre_info, pre_hidden>>
  /\ stats' = [returns |-> episode_returns, lens |-> episode_lens,
               n_collected_episodes |-> num_collected_episodes,
               n_collected_steps |-> step_count]
  /\ outcome' = "returned"
  /\ pc' = "idle"
  /\ UNCHANGED kvars
  /\ UNCHANGED <<env_num, env_k, buf, n_step, n_episode, random, ready_env_ids_R,
                 last_obs_RO, last_info_R, last_hidden_state_RH, step_count,
                 num_collected_episodes, episode_returns, episode_lens,
                 episode_start_indices, calls, call_log, buf0, n_policy, n_env_step,
                 n_add, last_miss, acted_after_done, max_ready, boundaries, ep_acc,
                 reset_ids, pre0, prev_mode, env_det, env_len, phase, script, saved>>

\* ------------------------------------------------------- specification
Init ==
  /\ \E n \in 1..MaxEnvs : InitCollector(n)
  /\ env_det = FALSE
  /\ env_len = <<>>
  /\ phase = "free"
  /\ script = <<>>
  /\ saved = NoSaved
  /\ InitKB

OptInt(hi) == {NoneInt} \cup (1..hi)
Misses == {"none", "latent_obs", "latent_goal"}
TermChoices == [1..Len(ready_env_ids_R) -> BOOLEAN]

CollectAny ==
  /\ calls < MaxCalls
  /\ \E ns \in OptInt(MaxNStep), ne \in OptInt(MaxNEpisode), rnd \in BOOLEAN :
       Collect(ns, ne, rnd)

Step == \E miss \in Misses, terminated_R \in TermChoices : IterStep(miss, terminated_R)
PolicyError == \E miss \in Misses : IterPolicyError(miss)
EnvStepError == \E miss \in Misses : IterEnvStepError(miss)

Next == CollectAny \/ Step \/ PolicyError \/ EnvStepError \/ Return

vars == <<cvars, kvars>>

Spec == Init /\ [][Next]_vars

\* ------------------------------------------- continuity scenario (SpecCont)
\* One collector makes the two step-count calls script[1], script[2]; then a
\* collector built the same way over the same deterministic environments makes
\* the single call script[1] + script[2].
InitCont ==
  /\ \E n \in 1..MaxEnvs :
       /\ InitCollector(n)
       /\ env_len \in [1..n -> 1..MaxEpLen]
  /\ env_det = TRUE
  /\ phase = "split"
  /\ script \in (1..MaxNStep) \X (1..MaxNStep)
  /\ saved = NoSaved
  /\ InitKB

ContCollect ==
  /\ phase = "split"
  /\ calls < Len(script)
  /\ Collect(script[calls + 1], NoneInt, FALSE)

\* the split run is over: keep its result and construct everything afresh
ContRebuild ==
  /\ phase = "split"
  /\ pc = "idle"
  /\ calls = Len(script)
  /\ saved' = [steps |-> collect_step, boundaries |-> boundaries]
  /\ phase' = "single"
  /\ env_t' = [k \in 1..env_num |-> 0]
  /\ env_k' = [k \in 1..env_num |-> 0]
  /\ buf' = FreshBuf(env_num)
  /\ pre_obs' = FreshObs(env_num)
  /\ pre_info' = ResetInfo(env_num, [k \in 1..env_num |-> 0])
  /\ pre_hidden' = NoHidden
  /\ collect_step' = 0
  /\ collect_episode' = 0
  /\ collect_time' = 0
  /\ n_step' = NoneInt
  /\ n_episode' = NoneInt
  /\ ready_env_ids_R' = <<>>
  /\ last_obs_RO' = <<>>
  /\ last_info_R' = <<>>
  /\ last_hidden_state_RH' = NoHidden
  /\ step_count' = 0
  /\ num_collected_episodes' = 0
  /\ episode_returns' = <<>>
  /\ episode_lens' = <<>>
  /\ episode_start_indices' = <<>>
  /\ outcome' = "none"
  /\ stats' = NoStats
  /\ calls' = 0
  /\ call_log' = <<>>
  /\ buf0' = FreshBuf(env_num)
  /\ n_policy' = 0
  /\ n_env_step' = 0
  /\ n_add' = 0
  /\ last_miss' = "none"
  /\ acted_after_done' = {}
  /\ max_ready' = 0
  /\ boundaries' = <<>>
  /\ ep_acc' = [k \in 1..env_num |-> <<>>]
  /\ reset_ids' = <<>>
  /\ pre0' = [collect_step |-> 0, collect_episode |-> 0, collect_time |-> 0, pre_obs |-> FreshObs(env_num),
              pre_info |-> ResetInfo(env_num, [k \in 1..env_num |-> 0]),
              pre_hidden |-> NoHidden]
  /\ prev_mode' = "none"
  /\ UNCHANGED kvars
  /\ UNCHANGED <<env_num, pc, random, env_det, env_len, script>>

ContCollectSingle ==
  /\ phase = "single"
  /\ calls = 0
  /\ Collect(script[1] + script[2], NoneInt, FALSE)

ContStep == \E terminated_R \in TermChoices : IterStep("none", terminated_R)

NextCont == ContCollect \/ ContRebuild \/ ContCollectSingle \/ ContStep \/ Return

SpecCont == InitCont /\ [][NextCont]_vars

\* ------------------------------------------- call sequences (SpecSeq)
\* One collector over deterministic environments makes several calls, each
\* with one budget (a step count or an episode count); the Policy or an
\* environment may fail in any iteration.
InitSeq ==
  /\ \E n \in 1..MaxEnvs :
       /\ InitCollector(n)
       /\ env_len \in [1..n -> 1..MaxEpLen]
  /\ env_det = TRUE
  /\ phase = "free"
  /\ script = <<>>
  /\ saved = NoSaved
  /\ InitKB

\* calls of a sequence: one more than a single collector makes under Spec
SeqCalls == MaxCalls + 1

SeqCollectStep ==
  /\ calls < SeqCalls
  /\ \E ns \in 1..MaxNStep : Collect(ns, NoneInt, FALSE)

SeqCollectEpisode ==
  /\ calls < SeqCalls
  /\ \E ne \in 1..MaxNEpisode : Collect(NoneInt, ne, FALSE)

NextSeq ==
  SeqCollectStep \/ SeqCollectEpisode \/ Step \/ PolicyError \/ EnvStepError \/ Return

SpecSeq == InitSeq /\ [][NextSeq]_vars

\* ------------------------------------ three calls in a row (SpecChain)
\* One collector over deterministic environments makes a step-count call, an
\* episode-count call and another step-count call, in this order.
ChainCollectStep ==
  /\ calls \in {0, 2}
  /\ \E ns \in 1..MaxNStep : Collect(ns, NoneInt, FALSE)

ChainCollectEpisode ==
  /\ calls = 1
  /\ \E ne \in 1..MaxNEpisode : Collect(NoneInt, ne, FALSE)

NextChain == ChainCollectStep \/ ChainCollectEpisode \/ ContStep \/ Return

SpecChain == InitSeq /\ [][NextChain]_vars

\* ------------------------------- a call given both budgets (SpecMixed)
\* The first call of a collector is given a step count and an episode count;
\* the call after it is given one of the two.
MixedCollect ==
  /\ calls = 0
  /\ \E ns \in 1..MaxNStep, ne \in 1..MaxNEpisode : Collect(ns, ne, FALSE)

FollowCollectStep ==
  /\ calls = 1
  /\ \E ns \in 1..MaxNStep : Collect(ns, NoneInt, FALSE)

FollowCollectEpisode ==
  /\ calls = 1
  /\ \E ne \in 1..MaxNEpisode : Collect(NoneInt, ne, FALSE)

NextMixed ==
  MixedCollect \/ FollowCollectStep \/ FollowCollectEpisode \/ ContStep \/ Return

SpecMixed == Init /\ [][NextMixed]_vars

\* --------------------------------------- step-count calls (SpecStep)
\* Step-count calls with a target of 0 or more over deterministic
\* environments.  A call whose loop does not stop is followed for
\* MaxNStep + 1 iterations, one more than any call that stops at its target
\* needs.
StepCollect ==
  /\ calls < SeqCalls
  /\ \E ns \in 0..MaxNStep : Collect(ns, NoneInt, FALSE)

StepIter ==
  /\ n_add <= MaxNStep
  /\ ContStep

NextStep == StepCollect \/ StepIter \/ Return

SpecStep == InitSeq /\ [][NextStep]_vars

\* ------------------------------- episode-count calls that run on (SpecLive)
\* Episode-count calls whose Policy returns both latent fields and whose
\* environments do not fail.  _collect is sequential code: while it is inside
\* the loop the next pass is taken, and after the loop the statistics are
\* updated and the call returns, so both steps are weakly fair.  Every
\* environment that keeps being stepped reports done: environment i ends its
\* episode at step env_len[i].
\* LoopPass and CallReturns describe the ContStep and Return steps by the
\* variables that tell them apart from the other steps of NextLive; they are
\* enabled exactly when pc = "loop" and pc = "exit".
LoopPass == pc = "loop" /\ n_add' = n_add + 1
CallReturns == pc = "exit" /\ pc' = "idle"

LiveCollect ==
  /\ calls < SeqCalls
  /\ \E ne \in 1..MaxNEpisode : Collect(NoneInt, ne, FALSE)

NextLive == LiveCollect \/ ContStep \/ Return

SpecLive == InitSeq /\ [][NextLive]_vars /\ WF_n_add(LoopPass) /\ WF_pc(CallReturns)

\* --------------------------------------------- knowledge base specification
InitKBSpec ==
  /\ InitCollector(1)
  /\ env_det = FALSE
  /\ env_len = <<>>
  /\ phase = "free"
  /\ script = <<>>
  /\ saved = NoSaved
  /\ InitKB

TrajIds == 1..MaxTraj
KBShardIds == 0..(KBShards - 1)
\* a batch entry: the payload is numbered by the order of arrival
KBEntry(n, traj_id) == [latent_obs |-> n, act |-> n, rew |-> 1, traj_id |-> traj_id]
\* buffer_ids given explicitly (one or two entries), or None: np.arange(buffer_num)
KBBufferIds ==
  [1..1 -> KBShardIds] \cup [1..2 -> KBShardIds] \cup {Arange(KBShards)}

\* Trajectory identifiers are opaque tags: the entries of a batch take
\* identifiers already recorded or the least identifiers not yet used.
KBIdChoices(n) ==
  {ids \in [1..n -> TrajIds] :
     \A j \in 1..n : \A m \in 1..(ids[j] - 1) :
       m \in DOMAIN traj_meta \/ \E i \in 1..(j - 1) : ids[i] = m}

KBAddAny ==
  \E buffer_ids \in KBBufferIds :
    \E ids \in KBIdChoices(Len(buffer_ids)) :
      KBAdd([j \in 1..Len(buffer_ids) |-> KBEntry(kb_n + j, ids[j])], buffer_ids)

KBGetAny == \E traj_id \in TrajIds : KBGetTrajectory(traj_id)

\* an add of one entry that lacks one of the reserved keys
KBAddBad ==
  \E buffer_id \in KBShardIds, k \in 1..Len(KBReservedKeys) :
    LET full == KBEntry(kb_n + 1, 1)
        entry == [key \in (DOMAIN full) \ {KBReservedKeys[k]} |-> full[key]]
    IN KBAddMissingField(<<entry>>, <<buffer_id>>)

NextKB == KBAddAny \/ KBGetAny

\* single-entry adds, for the scenarios with resets
KBAddOne ==
  \E buffer_id \in KBShardIds :
    \E ids \in KBIdChoices(1) :
      KBAdd(<<KBEntry(kb_n + 1, ids[1])>>, <<buffer_id>>)

\* a reset of a knowledge base that was written to since the last reset
KBResetAny ==
  /\ \E s \in 1..KBShards : kb_since[s] > 0
  /\ KBReset

\* a lookup made right after a reset, before anything is added again
KBGetAfterReset ==
  /\ \A s \in 1..KBShards : kb_since[s] = 0
  /\ \E traj_id \in TrajIds : KBGetTrajectory(traj_id)

\* integer indices at and around the ends of the index space
KBIndexInputs == {-KBTotal - 1, -KBTotal, -1, 0, KBTotal - 1, KBTotal}

KBGetItemAny == \E g \in KBIndexInputs : KBGetItem(g)

NextKBIndex == KBAddOne \/ KBGetItemAny

SpecKBIndex == InitKBSpec /\ [][NextKBIndex]_vars

NextKBReset == KBAddOne \/ KBGetAfterReset \/ KBResetAny

\* adds of one entry, complete or lacking a reserved key
NextKBViolation == KBAddOne \/ KBAddBad

SpecKBViolation == InitKBSpec /\ [][NextKBViolation]_vars

\* The shapes of a batch entry: the four reserved fields alone, with a field
\* nested inside the latent observation, or with a further top-level field.
KBShapes == {"plain", "nested", "extra"}
KBShapedEntry(n, shape) ==
  IF shape = "nested" THEN KBEntry(n, 1) @@ ("latent_obs.aux" :> n)
  ELSE IF shape = "extra" THEN KBEntry(n, 1) @@ ("tag" :> n)
  ELSE KBEntry(n, 1)

\* single-entry adds of every shape
KBAddShaped ==
  \E buffer_id \in KBShardIds, shape \in KBShapes :
    KBAdd(<<KBShapedEntry(kb_n + 1, shape)>>, <<buffer_id>>)

NextKBSchema == KBAddShaped

SpecKBSchema == InitKBSpec /\ [][NextKBSchema]_vars

SpecKBReset == InitKBSpec /\ [][NextKBReset]_vars

SpecKB == InitKBSpec /\ [][NextKB]_vars

\* =================================================== properties, collector
EpisodeMode == n_step = NoneInt /\ n_episode # NoneInt
StepMode == n_step # NoneInt /\ n_episode = NoneInt

\* the log entries of one slot, in write order
SlotLog(i) == SelectSeq(call_log, LAMBDA e : e.slot = i)
DoneLog == SelectSeq(call_log, LAMBDA e : e.tr.done)
SteppedSlots == {call_log[e].slot : e \in 1..Len(call_log)}

\* the cell of the buffer at global index g
CellAt(b, g) == b[(g \div BufSize) + 1].data[(g % BufSize) + 1]

\* C1: in episode-count mode the number of completed episodes (done
\* transitions written in the call) never exceeds n_episode while the call
\* runs, and a call that returns reports exactly n_episode episodes.
C1_EpisodeCountExact ==
  EpisodeMode =>
    /\ Len(DoneLog) <= n_episode
    /\ num_collected_episodes <= n_episode
    /\ outcome = "returned" =>
         /\ stats.n_collected_episodes = n_episode
         /\ Len(DoneLog) = n_episode

\* C1 witness: two environments, two episodes wanted; slot 0 finished first and
\* was trimmed, slot 1 ran one step alone, and the call returned 2 episodes.
C1_Witness ==
  /\ EpisodeMode /\ outcome = "returned"
  /\ env_num = 2 /\ n_episode = 2
  /\ stats.n_collected_steps = 3
  /\ stats.n_collected_episodes = 2

\* C3 as claimed: a call with no budget, and a call with both budgets, never
\* steps an environment and never writes to the buffer, and ends only with
\* InvalidCollectionBudget.
C3_InvalidBudgetRejected ==
  (calls > 0 /\ ~(EpisodeMode \/ StepMode)) =>
    /\ pc # "loop" => outcome = "InvalidCollectionBudget"
    /\ n_env_step = 0
    /\ n_add = 0
    /\ buf = buf0

\* C4 as claimed: a random-mode call with a valid budget never invokes the
\* Policy and ends only by returning (or by an environment failure).
C4_RandomModeCompletes ==
  (random /\ (EpisodeMode \/ StepMode)) =>
    /\ n_policy = 0
    /\ outcome \in {"none", "returned", "EnvironmentStepFailure"}

\* C5: in non-random mode, when the Policy's result omits latent_obs or
\* latent_goal, the call fails in that iteration with MissingLatentState, no
\* environment is stepped and nothing is written for that iteration, and no
\* stored transition ever carries an empty latent goal.
C5_MissingLatentAborts ==
  /\ (last_miss # "none" /\ ~random) =>
       /\ outcome = "MissingLatentState"
       /\ pc = "aborted"
       /\ n_env_step = n_policy - 1
       /\ n_add = n_policy - 1
       /\ Len(call_log) = step_count
  /\ \A i \in 1..env_num : \A k \in 1..BufSize :
       buf[i].data[k] # <<>> => buf[i].data[k][1].latent_goal # NoneInt

\* C5 witness: the Policy omitted a latent field in the second iteration.
C5_Witness ==
  /\ outcome = "MissingLatentState"
  /\ last_miss = "latent_goal"
  /\ n_add = 1
  /\ n_policy = 2

\* C6 as claimed: after an environment step failure every transition written
\* earlier in the call is still stored at its position.
C6_AllWrittenStillStored ==
  outcome = "EnvironmentStepFailure" =>
    \A e \in 1..Len(call_log) : CellAt(buf, call_log[e].ptr) = <<call_log[e].tr>>

\* C6 amended: after an environment step failure in iteration k the call has
\* aborted without another step or write, and every shard is exactly as the
\* writes of iterations 1..k-1 left it: the pointer advanced by the number of
\* writes (mod capacity), the valid-count grew by it (saturating), and the
\* min(writes, capacity) most recent transitions are stored unchanged; only
\* transitions overwritten by later writes of the same call are gone.
C6_NoRollback ==
  outcome = "EnvironmentStepFailure" =>
    /\ pc = "aborted"
    /\ n_env_step = n_add
    /\ n_policy = n_add + 1
    /\ \A i \in 0..(env_num - 1) :
         LET w == SlotLog(i)
             n == Len(w)
             sh == buf[i + 1]
         IN /\ sh.index = (buf0[i + 1].index + n) % BufSize
            /\ sh.size = Min(buf0[i + 1].size + n, BufSize)
            /\ \A k \in 0..(Min(n, BufSize) - 1) :
                 /\ sh.data[((sh.index - 1 - k) % BufSize) + 1] = <<w[n - k].tr>>
                 /\ w[n - k].ptr = Offset(i) + ((sh.index - 1 - k) % BufSize)
            /\ n = 0 => sh = buf0[i + 1]

\* C6 witness: the step failed after a shard had wrapped within the call.
C6_Witness ==
  /\ outcome = "EnvironmentStepFailure"
  /\ \E i \in 0..(env_num - 1) : Len(SlotLog(i)) > BufSize

\* C7: in episode-count mode at most n_episode slots receive an action after
\* their first completed episode of the call, and no iteration steps more than
\* min(env_num, n_episode) slots.
C7_BoundedReadySet ==
  EpisodeMode =>
    /\ Cardinality(acted_after_done) <= n_episode
    /\ max_ready <= Min(env_num, n_episode)
    /\ Len(ready_env_ids_R) <= Min(env_num, n_episode)

\* C7 witness: a call for two episodes returned after a slot was stepped again
\* once it had finished its first episode.
C7_Witness ==
  /\ EpisodeMode /\ outcome = "returned"
  /\ acted_after_done # {}
  /\ n_episode = 2

\* C8: in episode-count mode a slot that was stepped in the call and is no
\* longer in the ready set wrote a done transition last (it left the ready set
\* in an iteration in which its done flag fired), and when the call returns
\* every stepped slot has completed an episode and left no partial episode.
C8_TrimOnlyFinished ==
  EpisodeMode =>
    /\ \A i \in SteppedSlots :
         i \notin Range(ready_env_ids_R) =>
           SlotLog(i)[Len(SlotLog(i))].tr.done
    /\ (pc = "exit" \/ outcome = "returned") =>
         \A i \in SteppedSlots :
           /\ \E e \in 1..Len(call_log) : call_log[e].slot = i /\ call_log[e].tr.done
           /\ SlotLog(i)[Len(SlotLog(i))].tr.done

\* C8 witness: slot 1 finished first and was trimmed while slot 0 went on.
C8_Witness ==
  /\ EpisodeMode /\ pc = "loop"
  /\ env_num = 2 /\ n_episode = 2
  /\ ready_env_ids_R = <<0>>
  /\ 1 \in SteppedSlots

\* C9: for a call that returns, total steps is the number of transitions
\* written in the call, total episodes the number of those with done set, and
\* the episode returns and lengths are the totals the buffer reported for the
\* done transitions, one each, by iteration and then by increasing slot index.
C9_StatsConsistent ==
  outcome = "returned" =>
    /\ stats.n_collected_steps = Len(call_log)
    /\ stats.n_collected_episodes = Len(DoneLog)
    /\ Len(stats.returns) = stats.n_collected_episodes
    /\ Len(stats.lens) = stats.n_collected_episodes
    /\ stats.returns = [k \in 1..Len(DoneLog) |-> DoneLog[k].ep_rew]
    /\ stats.lens = [k \in 1..Len(DoneLog) |-> DoneLog[k].ep_len]
    /\ \A a, b \in 1..Len(call_log) :
         a < b => \/ call_log[a].iter < call_log[b].iter
                  \/ /\ call_log[a].iter = call_log[b].iter
                     /\ call_log[a].slot < call_log[b].slot

\* C9 witness: a returned call in which slot 1 finished an episode in an
\* iteration where slot 0 did not.
C9_Witness ==
  /\ outcome = "returned"
  /\ stats.n_collected_episodes >= 1
  /\ \E e \in 1..Len(call_log) :
       /\ call_log[e].slot = 1 /\ call_log[e].tr.done
       /\ \E f \in 1..Len(call_log) :
            /\ call_log[f].iter = call_log[e].iter
            /\ call_log[f].slot = 0 /\ ~call_log[f].tr.done

\* ------------------------------------------------ continuity (SpecCont)
Ceil(a, b) == (a + b - 1) \div b
SingleRunReturned == phase = "single" /\ outcome = "returned"
\* the two calls together run as many loop iterations as the single call
SameIterations ==
  Ceil(script[1], env_num) + Ceil(script[2], env_num)
    = Ceil(script[1] + script[2], env_num)

\* C2 as claimed: for every env_num, two sequential step-count calls n1, n2
\* give the same total step count and the same episode boundaries as one call
\* of n1 + n2.
C2_Continuity ==
  SingleRunReturned =>
    /\ collect_step = saved.steps
    /\ boundaries = saved.boundaries

\* C2 amended: the same, whenever the two calls together run as many
\* iterations as the single call, ceil(n1/N) + ceil(n2/N) = ceil((n1+n2)/N)
\* (in particular whenever env_num divides n1 or n2); each call rounds its
\* target up to a whole number of iterations of env_num steps.
C2_ContinuityWholeIterations ==
  (SingleRunReturned /\ SameIterations) =>
    /\ collect_step = saved.steps
    /\ boundaries = saved.boundaries

\* C2 witness: two environments, calls of 2 and 2 steps, and an episode of
\* slot 0 that began in the first call and ended in the second.
C2_Witness ==
  /\ SingleRunReturned /\ SameIterations
  /\ env_num = 2 /\ script = <<2, 2>>
  /\ env_len[1] = 2
  /\ <<0, 4>> \in Range(saved.boundaries)
  /\ boundaries = saved.boundaries

\* ------------------------------------------------ knowledge base (SpecKB)
\* C10: get_trajectory(id) for an identifier added at least once returns one
\* entry per shard, in shard order, and entry s is absent exactly when no
\* transition with that identifier was ever added to shard s; an identifier
\* never added is a KeyError.
C10_TrajectoryPerShard ==
  /\ kb_ret.kind = "trajectory" =>
       /\ \E s \in KBShardIds : <<kb_ret.traj_id, s>> \in kb_ever
       /\ Len(kb_ret.v) = KBShards
       /\ \A s \in KBShardIds :
            (~kb_ret.v[s + 1].some) <=> (<<kb_ret.traj_id, s>> \notin kb_ever)
  /\ kb_ret.kind = "KeyError" =>
       \A s \in KBShardIds : <<kb_ret.traj_id, s>> \notin kb_ever

\* C10 witness: identifier 1 was written only into shard 1 (the second shard);
\* get_trajectory(1) returned [None, Batch] with the Batch holding a row.
C10_Witness ==
  /\ kb_ret.kind = "trajectory"
  /\ kb_ret.traj_id = 1
  /\ <<1, 1>> \in kb_ever /\ <<1, 0>> \notin kb_ever
  /\ <<2, 0>> \in kb_ever
  /\ ~kb_ret.v[1].some
  /\ kb_ret.v[2].some /\ Len(kb_ret.v[2].rows) >= 1

\* the writes to shard s, and those of identifier id among them, in order
KBShardLog(s) == SelectSeq(kb_log, LAMBDA e : e.shard = s)
KBIdLog(id, s) == SelectSeq(kb_log, LAMBDA e : e.shard = s /\ e.row.traj_id = id)

\* C11: for every (identifier, shard) pair that received a transition, the
\* recorded first is the global index of the first transition of that
\* identifier written to that shard and the recorded last that of the most
\* recent one; a pair that received none has no record, whatever was added for
\* other identifiers and shards.
C11_TrajectoryBounds ==
  /\ DOMAIN traj_meta = {id \in TrajIds : \E s \in KBShardIds : Len(KBIdLog(id, s)) > 0}
  /\ \A id \in DOMAIN traj_meta : \A s \in KBShardIds :
       LET w == KBIdLog(id, s)
       IN IF Len(w) = 0
          THEN traj_meta[id][s + 1] = <<>>
          ELSE traj_meta[id][s + 1] = <<w[1].g, w[Len(w)].g>>

\* C11 witness: identifier 1 was written twice to shard 0, its range was
\* extended, and identifier 2 was then written to shards 0 and 1.
C11_Witness ==
  /\ Len(KBIdLog(1, 0)) = 2
  /\ Len(KBIdLog(2, 0)) = 1 /\ Len(KBIdLog(2, 1)) = 1
  /\ kb_log[Len(kb_log)].row.traj_id = 2
  /\ traj_meta[1][1] = <<0, 1>>
  /\ traj_meta[1][2] = <<>>

\* C15: every global pointer and episode-start index that add returns for a
\* transition routed to shard s, every recorded trajectory bound of shard s
\* and last_index[s] lie in [s * capacity, (s + 1) * capacity).
C15_GlobalIndexBounds ==
  /\ kb_ret.kind = "add" =>
       \A j \in 1..Len(kb_ret.ptrs) :
         LET s == kb_ret.buffer_ids[j]
         IN /\ s * KBSize <= kb_ret.ptrs[j] /\ kb_ret.ptrs[j] < (s + 1) * KBSize
            /\ s * KBSize <= kb_ret.ep_idxs[j] /\ kb_ret.ep_idxs[j] < (s + 1) * KBSize
  /\ \A id \in DOMAIN traj_meta : \A s \in KBShardIds :
       traj_meta[id][s + 1] # <<>> =>
         \A b \in 1..2 :
           /\ s * KBSize <= traj_meta[id][s + 1][b]
           /\ traj_meta[id][s + 1][b] < (s + 1) * KBSize
  /\ \A s \in KBShardIds :
       s * KBSize <= kb_last_index[s + 1] /\ kb_last_index[s + 1] < (s + 1) * KBSize

\* C15 witness: shard 1 wrapped around and add returned its first position.
C15_Witness ==
  /\ kb_ret.kind = "add"
  /\ kb_since[2] = KBSize + 1
  /\ kb_ret.buffer_ids[Len(kb_ret.ptrs)] = 1
  /\ kb_ret.ptrs[Len(kb_ret.ptrs)] = KBSize

C17_SchemaViolationNoEffect ==
  [][kb_ret'.kind = "SchemaViolation" =>
       UNCHANGED <<kb, traj_meta, kb_last_index, kb_lengths, kb_keys>>]_vars

\* C17 witness: an add without the reward field failed on a knowledge base
\* that already held transitions of two identifiers.
C17_Witness ==
  /\ kb_ret.kind = "SchemaViolation"
  /\ kb_ret.key = "rew"
  /\ Len(kb_log) >= 2
  /\ DOMAIN traj_meta = {1, 2}

\* C18 as claimed (under SpecKBIndex): reading the manager at an
\* integer global index returns data only for 0 <= g < total capacity; an
\* index below 0 or at or above the total capacity fails and returns nothing.
C18_IndexOutOfRange ==
  kb_ret.kind = "item" => (0 <= kb_ret.g /\ kb_ret.g < KBTotal)

\* C19: after n writes to a shard of capacity C its valid entries, read back,
\* are exactly the min(n, C) most recent writes to it, each at the position
\* its pointer named; an older write is gone and its position returns the
\* newer transition that overwrote it.
C19_RingContent ==
  \A s \in KBShardIds :
    LET w == KBShardLog(s)
        n == Len(w)
        sh == kb[s + 1]
        m == Min(n, KBSize)
        valid == ShardGetSlice(sh, 0, KBSize)
    IN /\ Len(valid) = m
       /\ \A k \in 0..(m - 1) :
            LET p == (sh.index - 1 - k) % KBSize
            IN /\ p < m
               /\ valid[p + 1] = w[n - k].row
               /\ w[n - k].g = s * KBSize + p

\* C19 witness: shard 0 received one write more than its capacity; global
\* index 0 holds that last write, not the first.
C19_Witness ==
  /\ Len(KBShardLog(0)) = KBSize + 1
  /\ kb[1].size = KBSize
  /\ kb[1].data[1][1] = KBShardLog(0)[KBSize + 1].row
  /\ kb[1].data[1][1] # KBShardLog(0)[1].row

\* ------------------------------------- knowledge base resets (SpecKBReset)
\* the writes to shard s since the last reset
KBRecent(s) ==
  LET w == KBShardLog(s)
  IN SubSeq(w, Len(w) - kb_since[s + 1] + 1, Len(w))
\* identifier id was added to some shard since the last reset
KBAddedSinceReset(id) ==
  \E s \in KBShardIds : \E k \in 1..Len(KBRecent(s)) : KBRecent(s)[k].row.traj_id = id

C20_ShardPointer ==
  \A s \in 1..KBShards :
    /\ 0 <= kb[s].index /\ kb[s].index < KBSize
    /\ kb[s].index = kb_since[s] % KBSize
    /\ kb[s].size = Min(kb_since[s], KBSize)
    /\ kb[s].size <= KBSize
    /\ kb_lengths[s] = kb[s].size

\* C20 witness: shard 1 was filled (its pointer wrapped to 0), the knowledge
\* base was reset, and one transition was added to shard 1 again.
C20_Witness ==
  /\ Len(KBShardLog(1)) = KBSize + 1
  /\ kb_since[2] = 1
  /\ kb[2].index = 1 /\ kb[2].size = 1
  /\ kb[1].index = 0 /\ kb[1].size = 0

\* what the arrays hold at global position g
KBStoredAt(g) == KBRead(kb[(g \div KBSize) + 1].data[(g % KBSize) + 1])

\* the entries of the latest add, as they were passed
KBLastBatch == [j \in 1..Len(kb_ret.ptrs) |-> kb_log[Len(kb_log) - Len(kb_ret.ptrs) + j].row]

\* the fields add keeps: the reserved keys and what is nested inside them
KBKeptKeys == {KBReservedKeys[i] : i \in 1..Len(KBReservedKeys)} \cup KBNestedKeys

\* the step is an add whose batch carries a field that is not tracked yet
KBAddCarriesNewField ==
  /\ Len(kb_log') > Len(kb_log)
  /\ kb_ret'.kind = "add"
  /\ \E j \in 1..Len(KBLastBatch') : ~(DOMAIN KBLastBatch'[j] \subseteq kb_keys)

\* every value stored before the add, at a position the add did not write,
\* reads back as before
KBOldValuesKept ==
  \A g \in 0..(KBTotal - 1) :
    (\A j \in 1..Len(kb_ret'.ptrs) : kb_ret'.ptrs[j] # g) =>
      \A key \in kb_keys :
        /\ key \in DOMAIN KBStoredAt(g)'
        /\ KBStoredAt(g)'[key] = KBStoredAt(g)[key]

NewLog == SubSeq(call_log', Len(call_log) + 1, Len(call_log'))
NewDoneLog == SelectSeq(NewLog, LAMBDA e : e.tr.done)
\* the step is one pass of the loop that wrote its batch
IterationDone == n_add' = n_add + 1
\* the slots whose done flag fired in the pass
NewDoneSlots == {NewDoneLog[k].slot : k \in 1..Len(NewDoneLog)}

LastOf(i) == SlotLog(i)[Len(SlotLog(i))]

\* C23 as claimed (under SpecMixed): the hidden state passed to the Policy for
\* a ready slot is the no-state value if the slot finished in the iteration
\* before, and otherwise the state the Policy returned for that slot in the
\* iteration before; no slot is given a state produced for another slot.
C23_HiddenStateOwnership ==
  (pc = "loop" /\ last_hidden_state_RH.some) =>
    \A j \in 1..Len(ready_env_ids_R) :
      LET i == ready_env_ids_R[j]
          h == last_hidden_state_RH.v[j]
      IN /\ h.env \in {NoneInt, i}
         /\ n_add > 0 => h = IF LastOf(i).tr.done THEN ZeroState ELSE LastOf(i).tr.policy

\* C28 as claimed (under SpecMixed): at the start of every iteration the
\* ready list is strictly increasing and within 0..N-1, the carried
\* observation, info and hidden-state arrays have one entry per ready slot,
\* and position j holds the data of the slot whose id is at position j.
C28_ReadySetAlignment ==
  pc = "loop" =>
    LET R == Len(ready_env_ids_R)
    IN /\ \A j \in 1..R : 0 <= ready_env_ids_R[j] /\ ready_env_ids_R[j] < env_num
       /\ \A j \in 1..(R - 1) : ready_env_ids_R[j] < ready_env_ids_R[j + 1]
       /\ Len(last_obs_RO) = R
       /\ Len(last_info_R) = R
       /\ last_hidden_state_RH.some => Len(last_hidden_state_RH.v) = R
       /\ \A j \in 1..R :
            /\ last_obs_RO[j][1] = ready_env_ids_R[j]
            /\ last_info_R[j].env_id = ready_env_ids_R[j]

\* ------------------------------------------------ call sequences (SpecSeq)

\* C21: when a transition with done set is added for slot i, the episode
\* return, length and start index that add returns are the sum of the rewards,
\* the count and the global index of the first of the transitions slot i wrote
\* since its previous done transition (in this call or in an earlier one); the
\* collector records these totals, and the shard's accumulators are zero
\* after the add.
C21_EpisodeTotals ==
  [][IterationDone =>
       /\ \A x \in 1..Len(NewLog) :
            LET e == NewLog[x]
                acc == ep_acc[e.slot + 1]
            IN e.tr.done =>
                 /\ e.ep_rew = SeqSum([k \in 1..Len(acc) |-> acc[k].rew]) + e.tr.rew
                 /\ e.ep_len = Len(acc) + 1
                 /\ e.ep_idx = IF Len(acc) = 0 THEN e.ptr ELSE acc[1].ptr
                 /\ buf'[e.slot + 1].ep_rew = 0
                 /\ buf'[e.slot + 1].ep_len = 0
       /\ episode_returns' =
            episode_returns \o [k \in 1..Len(NewDoneLog) |-> NewDoneLog[k].ep_rew]
       /\ episode_lens' =
            episode_lens \o [k \in 1..Len(NewDoneLog) |-> NewDoneLog[k].ep_len]
       /\ episode_start_indices' =
            episode_start_indices \o [k \in 1..Len(NewDoneLog) |-> NewDoneLog[k].ep_idx]]_vars

\* C21 witness: slot 0 finished, in the first iteration of a call, an episode
\* of two steps that began in the step-count call before it.
C21_Witness ==
  /\ prev_mode = "step"
  /\ n_add = 1
  /\ Len(SlotLog(0)) = 1
  /\ SlotLog(0)[1].tr.done
  /\ SlotLog(0)[1].ep_len = 2
  /\ SlotLog(0)[1].ep_rew = 2
  /\ episode_lens = <<2>>
  /\ buf[1].ep_len = 0

\* C29: when a call has aborted with an exception raised inside the loop
\* (the environment step failed or the Policy's result lacked a latent
\* field), the cumulative counters collect_step, collect_episode and
\* collect_time and the persisted observation, info and hidden state are what
\* they were when the call started.
C29_AbortLeavesBookkeeping ==
  (pc = "aborted" /\ outcome \in {"EnvironmentStepFailure", "MissingLatentState"}) =>
    /\ collect_step = pre0.collect_step
    /\ collect_episode = pre0.collect_episode
    /\ collect_time = pre0.collect_time
    /\ pre_obs = pre0.pre_obs
    /\ pre_info = pre0.pre_info
    /\ pre_hidden = pre0.pre_hidden

\* C29 witness: the second call of a collector aborted on an environment
\* step after one complete iteration: its transition is in the buffer and the
\* environment has advanced, the counters are those the first call left.
C29_Witness ==
  /\ pc = "aborted" /\ outcome = "EnvironmentStepFailure"
  /\ calls = 2 /\ n_add = 1
  /\ buf # buf0
  /\ step_count > 0
  /\ collect_step > 0 /\ collect_time = 1
  /\ pre0.collect_step = collect_step
  /\ pre_obs # last_obs_RO

\* C27: when an episode-count call has returned, every environment is at the
\* start of a fresh episode (also those that were never ready or were trimmed)
\* and the persisted observation, info and hidden state are those of the
\* reset, not of the call; the call after it starts every ready slot from the
\* reset observation and info with no hidden state.
C27_EpisodeCallEnd ==
  /\ (pc = "idle" /\ outcome = "returned" /\ EpisodeMode) =>
       /\ \A k \in 1..env_num : env_t[k] = 0
       /\ pre_obs = FreshObs(env_num)
       /\ pre_info = ResetInfo(env_num, env_k)
       /\ pre_hidden = NoHidden
  /\ (pc = "loop" /\ n_add = 0 /\ prev_mode = "episode") =>
       /\ \A k \in 1..env_num : env_t[k] = 0
       /\ last_obs_RO = TakeIds(FreshObs(env_num), ready_env_ids_R)
       /\ last_info_R = TakeIds(ResetInfo(env_num, env_k), ready_env_ids_R)
       /\ last_hidden_state_RH = NoHidden

\* C27 witness: an episode-count call for one episode on two environments
\* followed a step-count call that had left slot 1 in mid-episode; slot 1 was
\* not ready in the episode-count call and is at a fresh episode after it.
C27_Witness ==
  /\ pc = "idle" /\ outcome = "returned" /\ EpisodeMode
  /\ calls = 2 /\ prev_mode = "step"
  /\ env_num = 2 /\ n_episode = 1
  /\ pre0.pre_obs[2] = Obs(1, 1)
  /\ SlotLog(1) = <<>>
  /\ env_t[2] = 0
  /\ pre_obs[2] = Obs(1, 0)

\* ------------------------------------------- three calls in a row (SpecChain)
\* the transition shard i received most recently: <<>> or a one-entry sequence
PrevStored(i) ==
  LET sh == buf[i + 1]
  IN sh.data[((sh.index + Len(sh.data) - 1) % Len(sh.data)) + 1]

\* env.reset was issued once for each slot whose done flag fired in the pass,
\* and for no other slot
ResetsExactlyDone ==
  /\ Range(reset_ids') = NewDoneSlots
  /\ Len(reset_ids') = Cardinality(NewDoneSlots)

\* the observation of entry e continues the previous transition of its slot
ChainsFromPrevious(e) ==
  LET p == PrevStored(e.slot)
  IN p # <<>> =>
       e.tr.obs = IF p[1].done THEN Obs(e.slot, 0) ELSE p[1].obs_next

\* C24 as claimed: in every iteration the reset is issued for exactly the
\* slots that finished in it, and the observation of the next transition
\* written for slot i is the reset observation if its previous transition was
\* done and the next-observation of its previous transition otherwise.
C24_ChainingEveryTransition ==
  [][IterationDone =>
       /\ ResetsExactlyDone
       /\ \A k \in 1..Len(NewLog) : ChainsFromPrevious(NewLog[k])]_vars

\* C24, amended: the reset is issued for exactly the slots that finished in
\* the iteration; the first transition a slot writes after an episode-count
\* call carries the reset observation (the call reset every environment when
\* it ended), and every other transition continues the previous transition of
\* its slot, also from one call to the next.
C24_EpisodeBoundaryChaining ==
  [][IterationDone =>
       /\ ResetsExactlyDone
       /\ \A k \in 1..Len(NewLog) :
            IF n_add = 0 /\ prev_mode = "episode"
            THEN NewLog[k].tr.obs = Obs(NewLog[k].slot, 0)
            ELSE ChainsFromPrevious(NewLog[k])]_vars

\* C24 witness: slot 1 was left in mid-episode by the first call, was not
\* ready in the episode-count call, and starts the third call from the reset
\* observation; slot 0 finished in that iteration and was reset.
C24_Witness ==
  /\ calls = 3 /\ prev_mode = "episode" /\ n_add = 1
  /\ env_num = 2
  /\ buf[2].size = 2
  /\ \E c \in 1..BufSize : buf[2].data[c][1].obs_next = Obs(1, 1) /\ ~buf[2].data[c][1].done
  /\ LastOf(1).tr.obs = Obs(1, 0)
  /\ LastOf(0).tr.done
  /\ reset_ids = <<0>>

\* ------------------------------------------------ routing (Spec)
\* the cells of shard i, as global indices
ShardCells(i) == Offset(i)..(Offset(i) + BufSize - 1)

\* C25: in every iteration of every call the transition at batch position j,
\* produced by stepping the slot whose id is at position j of the ready list,
\* is written to that slot's shard at the shard's write position, so each
\* shard receives the steps of its slot in order, each step once; the shard
\* changes in that one cell only and the shards of the slots that are not
\* ready do not change.
C25_SlotToShardRouting ==
  [][IterationDone =>
       /\ Len(NewLog) = Len(ready_env_ids_R)
       /\ \A j \in 1..Len(NewLog) :
            LET e == NewLog[j]
                i == ready_env_ids_R[j]
                cell == e.ptr - Offset(i) + 1
            IN /\ e.slot = i
               /\ e.tr.info.env_id = i
               /\ e.tr.info.k = env_k[i + 1] + 1
               /\ e.ptr \in ShardCells(i)
               /\ e.ptr = Offset(i) + buf[i + 1].index
               /\ buf'[i + 1].index = (buf[i + 1].index + 1) % BufSize
               /\ buf'[i + 1].data[cell] = <<e.tr>>
               /\ \A c \in 1..BufSize :
                    c # cell => buf'[i + 1].data[c] = buf[i + 1].data[c]
       /\ \A i \in 0..(env_num - 1) :
            i \notin Range(ready_env_ids_R) => buf'[i + 1] = buf[i + 1]]_vars

\* C25 witness: slot 0 left the ready set after the first iteration; the
\* second iteration had slot 1 at batch position 0 and wrote to shard 1.
C25_Witness ==
  /\ n_add = 2 /\ env_num = 2
  /\ Len(SlotLog(0)) = 1 /\ Len(SlotLog(1)) = 2
  /\ LastOf(1).iter = 2
  /\ LastOf(1).ptr \in ShardCells(1)
  /\ buf[1].size = 1 /\ buf[2].size = 2
  /\ buf[2].data[LastOf(1).ptr - Offset(1) + 1] = <<LastOf(1).tr>>

\* ------------------------------------------------ step-count calls (SpecStep)
\* C26 as claimed: for every target n_step >= 0, every iteration of a
\* step-count call steps all N slots and leaves the ready set whole, resets
\* only the slots that finished, and the loop stops at the end of the first
\* iteration at which the cumulative step count is >= n_step.
C26_StepModeTermination ==
  [][(IterationDone /\ StepMode) =>
       /\ Len(NewLog) = env_num
       /\ step_count' = step_count + env_num
       /\ ready_env_ids_R' = Arange(env_num)
       /\ Range(reset_ids') = NewDoneSlots
       /\ step_count < n_step
       /\ (pc' = "exit") <=> (step_count' >= n_step)]_vars

\* ------------------------------------------- episode-count calls (SpecLive)
\* C30: in an episode-count call with n_episode >= 1 the ready set is not
\* empty as long as fewer than n_episode episodes have completed, and, the
\* environments reporting done when they keep being stepped, a call that is
\* in its loop eventually returns.
C30_EpisodeModeLiveness ==
  /\ []((EpisodeMode /\ pc = "loop" /\ num_collected_episodes < n_episode) =>
          Len(ready_env_ids_R) >= 1)
  /\ (EpisodeMode /\ pc = "loop") ~> (pc = "idle" /\ outcome = "returned")

\* C30 witness: a call for two episodes on two environments returned after
\* slot 0 had finished first and left the ready set and slot 1 had run on to
\* the end of its episode.
C30_Witness ==
  /\ EpisodeMode /\ pc = "idle" /\ outcome = "returned"
  /\ env_num = 2 /\ n_episode = 2
  /\ stats.n_collected_episodes = 2
  /\ n_add = 2
  /\ Len(SlotLog(0)) = 1 /\ Len(SlotLog(1)) = 2

====
